---- MODULE Spec2Model ----
(***************************************************************************)
(* The blockchain tree of crates/executor/src/blockchain_tree: the chains, *)
(* the block indices and the three public operations insert_block,         *)
(* finalize_block and make_canonical, as the code computes them.           *)
(***************************************************************************)
EXTENDS Integers, Sequences, FiniteSets, TLC

(***************************************************************************)
(* Bounds of the block universe and of the seeded trees.                   *)
(***************************************************************************)
\* Highest block number of the universe.
MaxNumber == 5
\* The canonical window a tree is seeded with is C0..C(SeedTip).
SeedTip == 3
\* Lane A forks off the canonical block of this height.
ForkA == 1
\* Lane B forks off the lane A block of this height.
ForkB == 2
\* Longest side chain a tree is seeded with.
MaxSeedLen == 2

\* BlockchainTree::max_chain_length, set when the tree is built.
max_chain_length == 4

(***************************************************************************)
(* Blocks.  A hash is <<lane, number>>; the hash fixes the sealed block.   *)
(* Lane C is the seeded canonical line, lane P extends the canonical tip,  *)
(* lane A forks off C(ForkA), lane B forks off A(ForkB), and the blocks of *)
(* lane U descend from a block nobody holds.  Lane X is one block with a   *)
(* wrong number: a child of the first block of lane A that claims a number *)
(* two above its parent's.                                                 *)
(***************************************************************************)
NoHash == <<"-", 0>>

ParentHash(lane, n) ==
    CASE lane = "C" -> IF n = 0 THEN NoHash ELSE <<"C", n - 1>>
      [] lane = "P" -> IF n - 1 = SeedTip THEN <<"C", SeedTip>> ELSE <<"P", n - 1>>
      [] lane = "A" -> IF n - 1 = ForkA THEN <<"C", ForkA>> ELSE <<"A", n - 1>>
      [] lane = "B" -> IF n - 1 = ForkB THEN <<"A", ForkB>> ELSE <<"B", n - 1>>
      [] lane = "X" -> <<"A", n - 2>>
      [] OTHER -> <<"U", n - 1>>

SealedBlock(lane, n) ==
    [number |-> n, hash |-> <<lane, n>>, parent_hash |-> ParentHash(lane, n)]

NoBlock == [number |-> 0, hash |-> NoHash, parent_hash |-> NoHash]

Blocks ==
    {SealedBlock("C", n) : n \in 0..SeedTip}
        \cup {SealedBlock("P", n) : n \in (SeedTip + 1)..MaxNumber}
        \cup {SealedBlock("A", n) : n \in (ForkA + 1)..MaxNumber}
        \cup {SealedBlock("B", n) : n \in (ForkB + 1)..MaxNumber}
        \cup {SealedBlock("U", n) : n \in 1..MaxNumber}
        \cup {SealedBlock("X", ForkA + 3)}

\* What consensus.validate_header may answer for a block: a header whose
\* number is not its parent's plus one is never accepted.
Verdicts(block) == IF block.hash[1] = "X" THEN {FALSE} ELSE BOOLEAN

Hashes == {b.hash : b \in Blocks}

BlockNumbers == 0..(MaxNumber + 1)

(***************************************************************************)
(* Maps (HashMap / BTreeMap) are functions with an explicit domain.        *)
(***************************************************************************)
EmptyMap == [x \in {} |-> 0]

MapPut(m, k, v) == [x \in (DOMAIN m) \cup {k} |-> IF x = k THEN v ELSE m[x]]

MapDel(m, k) == [x \in (DOMAIN m) \ {k} |-> m[x]]

MapGetOr(m, k, d) == IF k \in DOMAIN m THEN m[k] ELSE d

Min(S) == CHOOSE x \in S : \A y \in S : x <= y

Max(S) == CHOOSE x \in S : \A y \in S : x >= y

Range(s) == {s[i] : i \in DOMAIN s}

(***************************************************************************)
(* Chain (chain.rs).                                                       *)
(***************************************************************************)
\* #[derive(Default)] Chain: no blocks.
ChainDefault == [pending_state |-> FALSE, changesets |-> <<>>, blocks |-> <<>>]

ChainOf(blocks) == [pending_state |-> FALSE, changesets |-> <<>>, blocks |-> blocks]

\* None of Option<Chain>.
None == [none |-> TRUE]

\* first() and last() panic on a chain without blocks.
HasBlocks(chain) == chain.blocks # <<>>

first(chain) == chain.blocks[1]

tip(chain) == chain.blocks[Len(chain.blocks)]

\* (joint_block_OwnFirst names the first block of the chain itself.)
joint_block_OwnFirst(chain) ==
    [number |-> first(chain).number, hash |-> first(chain).hash]

joint_block(chain) ==
    [number |-> first(chain).number - 1, hash |-> first(chain).parent_hash]

joint_block_number(chain) == first(chain).number - 1

joint_block_hash(chain) == first(chain).parent_hash

\* Ok(Self::default()): the block is not put into the chain.
new_canonical_joint(block) == ChainDefault

\* Ok(Self::default()): the block is not put into the chain.
new_chain_joint(chain, block) == ChainDefault

\* (append_block_Reset keeps the pushed block only.)
append_block_Reset(chain, block, header_ok) ==
    [chain |-> [chain EXCEPT !.blocks = <<block>>], ret |-> "Ok"]

\* Err when the chain has no last block; the result of validate_header is
\* dropped (let _ =), so header_ok does not decide anything.
append_block(chain, block, header_ok) ==
    IF chain.blocks = <<>>
    THEN [chain |-> chain, ret |-> "Err"]
    ELSE [chain |-> [chain EXCEPT !.blocks = Append(@, block)], ret |-> "Ok"]

\* Ok(()) with self untouched: the received chain is dropped.
append_chain(chain, other) == [chain |-> chain, ret |-> "Ok"]

\* (None, None) for every chain and hash.
split_at_block_hash(chain, block_hash) == <<None, None>>

\* (None, None) for every chain and number.
split_at_number(chain, block_number) == <<None, None>>

(***************************************************************************)
(* BlockIndices (block_indices.rs).                                        *)
(***************************************************************************)
BlockIndicesDefault ==
    [fork_to_child |-> EmptyMap, canonical_chain |-> EmptyMap,
     blocks_to_chain |-> EmptyMap, number_to_block |-> EmptyMap]

\* The loop of insert_chain over chain.blocks: block -> chain_id and
\* number -> block for every block of the chain.
IndexBlocks(ix, chain_id, chain) ==
    LET bs == Range(chain.blocks)
        hs == {b.hash : b \in bs}
        ns == {b.number : b \in bs}
    IN  [ix EXCEPT
            !.blocks_to_chain =
                [h \in (DOMAIN @) \cup hs |-> IF h \in hs THEN chain_id ELSE @[h]],
            !.number_to_block =
                [n \in (DOMAIN @) \cup ns |->
                    MapGetOr(@, n, {}) \cup {b.hash : b \in {c \in bs : c.number = n}}]]

\* parent block -> block index of the chain's first block.
IndexFork(ix, chain) ==
    [ix EXCEPT !.fork_to_child =
        MapPut(@, first(chain).parent_hash,
               MapGetOr(@, first(chain).parent_hash, {}) \cup {first(chain).hash})]

\* BlockIndices::insert_chain.  chain.first() panics on a chain without
\* blocks, after the loop over the blocks has run.
BlockIndices_insert_chain(ix, chain_id, chain) ==
    IF HasBlocks(chain)
    THEN [ix |-> IndexFork(IndexBlocks(ix, chain_id, chain), chain), ret |-> "Ok"]
    ELSE [ix |-> IndexBlocks(ix, chain_id, chain), ret |-> "panic"]

\* Option<ChainId>: the id, or None.
get_block_chain_id(ix, hash) == MapGetOr(ix.blocks_to_chain, hash, None)

\* The fold over the fork children of a removed fork block: each child is
\* removed from blocks_to_chain and the chain it was indexed to is collected.
RemoveForkChildren(acc, fork_blocks) ==
    [ix |-> [acc.ix EXCEPT !.blocks_to_chain =
                [h \in (DOMAIN @) \ fork_blocks |-> @[h]]],
     lose_chains |-> acc.lose_chains \cup
        {acc.ix.blocks_to_chain[h] : h \in fork_blocks \cap DOMAIN acc.ix.blocks_to_chain}]

\* RemoveFork without the removal: the forks of a removed block are left in
\* place and no dependent chain is collected.
RemoveFork_Skip(acc, block_hash) == acc

\* fork_to_child.remove(hash) and, when there was an entry, the fold over it.
RemoveFork(acc, block_hash) ==
    IF block_hash \in DOMAIN acc.ix.fork_to_child
    THEN RemoveForkChildren(
            [acc EXCEPT !.ix.fork_to_child = MapDel(@, block_hash)],
            acc.ix.fork_to_child[block_hash])
    ELSE acc

\* One iteration of the loop of remove_chain, for one block of the chain.
RemoveBlock(acc, block) ==
    RemoveFork(
        [acc EXCEPT
            !.ix.number_to_block =
                IF block.number \in DOMAIN @
                THEN [@ EXCEPT ![block.number] = @ \ {block.hash}]
                ELSE @,
            !.ix.blocks_to_chain = MapDel(@, block.hash)],
        block.hash)

RECURSIVE RemoveBlocksFrom(_, _, _)
RemoveBlocksFrom(acc, blocks, i) ==
    IF i > Len(blocks) THEN acc
    ELSE RemoveBlocksFrom(RemoveBlock(acc, blocks[i]), blocks, i + 1)

\* BlockIndices::remove_chain: the indices after it and the chains it returns.
remove_chain(ix, chain) ==
    RemoveBlocksFrom([ix |-> ix, lose_chains |-> {}], chain.blocks, 1)

\* The keys that stay in canonical_chain: split_off(block_number + 1) is the
\* half with the keys >= block_number + 1, and the swap keeps that half.
KeptCanonical(canonical_chain, block_number) ==
    {k \in DOMAIN canonical_chain : k >= block_number + 1}

RECURSIVE RemoveForksOf(_, _, _)
RemoveForksOf(acc, canonical_chain, keys) ==
    IF keys = {} THEN acc
    ELSE RemoveForksOf(RemoveFork(acc, canonical_chain[Min(keys)]),
                       canonical_chain, keys \ {Min(keys)})

\* BlockIndices::finalize_canonical_blocks: the finalized blocks are visited
\* in key order.
finalize_canonical_blocks(ix, block_number) ==
    LET kept == KeptCanonical(ix.canonical_chain, block_number)
    IN  RemoveForksOf(
            [ix |-> [ix EXCEPT !.canonical_chain = [k \in kept |-> @[k]]],
             lose_chains |-> {}],
            ix.canonical_chain, (DOMAIN ix.canonical_chain) \ kept)

\* Option<BlockHash>.
canonical_hash(ix, block_number) == MapGetOr(ix.canonical_chain, block_number, None)

\* canonical_tip() panics on an empty canonical_chain.
HasCanonical(ix) == DOMAIN ix.canonical_chain # {}

canonical_tip(ix) ==
    [number |-> Max(DOMAIN ix.canonical_chain),
     hash |-> ix.canonical_chain[Max(DOMAIN ix.canonical_chain)]]

(***************************************************************************)
(* BlockchainTree (mod.rs).  A tree value t holds the fields of the struct *)
(* and the PendingBlocks table of its db; an operation yields the tree it  *)
(* leaves and how the call ended: a returned value, "panic", or "diverges" *)
(* for a loop that never exits.                                            *)
(***************************************************************************)
\* tx_mut()?.put::<tables::PendingBlocks>(hash, block); db_ok is whether the
\* store accepts the write.
PutPendingBlock(t, block, db_ok) ==
    IF db_ok
    THEN [t |-> [t EXCEPT !.db.PendingBlocks = @ \cup {block.hash}], ret |-> "Ok"]
    ELSE [t |-> t, ret |-> "DbError"]

\* (insert_chain_NoAdvance is insert_chain without chain_id_generator += 1.)
insert_chain_NoAdvance(t, chain) ==
    LET r == BlockIndices_insert_chain(t.block_indices, t.chain_id_generator, chain)
        t2 == [t EXCEPT !.block_indices = r.ix]
    IN  IF r.ret = "panic"
        THEN [t |-> t2, ret |-> "panic"]
        ELSE [t |-> [t2 EXCEPT !.chains = MapPut(@, t.chain_id_generator, chain)],
              ret |-> "Ok"]

\* BlockchainTree::insert_chain: the id is taken and the generator advanced
\* before the indices are written; a panic in the indices leaves chains as
\* it was.
insert_chain(t, chain) ==
    LET chain_id == t.chain_id_generator
        t1 == [t EXCEPT !.chain_id_generator = @ + 1]
        r == BlockIndices_insert_chain(t1.block_indices, chain_id, chain)
        t2 == [t1 EXCEPT !.block_indices = r.ix]
    IN  IF r.ret = "panic"
        THEN [t |-> t2, ret |-> "panic"]
        ELSE [t |-> [t2 EXCEPT !.chains = MapPut(@, chain_id, chain)], ret |-> "Ok"]

\* BlockchainTree::join_block_to_chain.
join_block_to_chain(t, block, chain_id, header_ok) ==
    IF chain_id \notin DOMAIN t.chains
    THEN [t |-> t, ret |-> "ChainIdConsistency"]
    ELSE IF ~HasBlocks(t.chains[chain_id])
    THEN [t |-> t, ret |-> "panic"]
    ELSE IF tip(t.chains[chain_id]).hash = block.parent_hash
    THEN [t |-> [t EXCEPT !.chains[chain_id] = append_block(@, block, header_ok).chain],
          ret |-> "Ok"]
    ELSE insert_chain(t, new_chain_joint(t.chains[chain_id], block))

\* IsFinalized with < for <=.
IsFinalized_Strict(t, block) == block.number < t.finalized_block

\* The two admission tests of insert_block.  The block numbers of the
\* universe are far below the top of u64: the sum does not overflow.
IsFinalized(t, block) == block.number <= t.finalized_block

IsInFuture(t, block) == block.number > t.finalized_block + max_chain_length

\* if let Some(parent_chain) = get_block_chain_id(&block.parent_hash)
ParentInTree(t, block) == block.parent_hash \in DOMAIN t.block_indices.blocks_to_chain

\* ParentIsCanonical without the comparison of the hashes.
ParentIsCanonical_AnyHash(t, block) ==
    block.number - 1 \in DOMAIN t.block_indices.canonical_chain

\* Some(block.parent_hash) == canonical_hash(&(block.number - 1))
ParentIsCanonical(t, block) ==
    /\ block.number - 1 \in DOMAIN t.block_indices.canonical_chain
    /\ canonical_hash(t.block_indices, block.number - 1) = block.parent_hash

\* What follows a ret of the in-memory step: the put on Ok, else that ret
\* (the ? operator, or the panic).
ThenPut(r, block, db_ok) ==
    IF r.ret = "Ok" THEN PutPendingBlock(r.t, block, db_ok) ELSE r

\* BlockchainTree::insert_block.
insert_block_fn(t, block, header_ok, db_ok) ==
    IF IsFinalized(t, block) THEN [t |-> t, ret |-> "PendingBlockIsFinalized"]
    ELSE IF IsInFuture(t, block) THEN [t |-> t, ret |-> "PendingBlockIsInFuture"]
    ELSE IF ParentInTree(t, block)
    THEN ThenPut(join_block_to_chain(t, block,
                    get_block_chain_id(t.block_indices, block.parent_hash), header_ok),
                 block, db_ok)
    ELSE IF ParentIsCanonical(t, block)
    THEN ThenPut(insert_chain(t, new_canonical_joint(block)), block, db_ok)
    ELSE [t |-> t, ret |-> "Ok"]

\* (FinalizeLoop_NoRemoval is the loop that exits without removing a chain.)
\* The while-let loop of finalize_block: remove_chains.first() is the least
\* id and is never taken out of the set, so the loop exits only on an empty
\* set; once the least id is no key of chains an iteration changes nothing.
FinalizeLoop_NoRemoval(t, remove_chains) == [t |-> t, ret |-> "Ok"]

RECURSIVE FinalizeLoop(_, _)
FinalizeLoop(t, remove_chains) ==
    IF remove_chains = {} THEN [t |-> t, ret |-> "Ok"]
    ELSE IF Min(remove_chains) \in DOMAIN t.chains
    THEN LET chain_id == Min(remove_chains)
             r == remove_chain(t.block_indices, t.chains[chain_id])
         IN  FinalizeLoop([t EXCEPT !.chains = MapDel(@, chain_id),
                                    !.block_indices = r.ix],
                          remove_chains \cup r.lose_chains)
    ELSE [t |-> t, ret |-> "diverges"]

\* BlockchainTree::finalize_block: finalized_block is assigned after the loop.
finalize_block_fn(t, finalized_block) ==
    LET f == finalize_canonical_blocks(t.block_indices, finalized_block)
        r == FinalizeLoop([t EXCEPT !.block_indices = f.ix], f.lose_chains)
    IN  IF r.ret = "Ok"
        THEN [t |-> [r.t EXCEPT !.finalized_block = finalized_block], ret |-> "Ok"]
        ELSE r

\* commit_canonical: Ok(()) and nothing else.
commit_canonical(t, chain) == [t |-> t, ret |-> "Ok"]

\* revert_canonical: Ok(Chain::default()) and nothing else.
revert_canonical(t, revert_until) == [t |-> t, chain |-> ChainDefault, ret |-> "Ok"]

\* The loop of make_canonical that collects the chains to promote.  st holds
\* the tree, block_joint, block_joint_number and chains_to_promote.
RECURSIVE PromoteLoop(_)
PromoteLoop(st) ==
    IF st.block_joint.hash \notin DOMAIN st.t.block_indices.blocks_to_chain
    THEN [st EXCEPT !.ret = "Ok"]
    ELSE LET chain_id == get_block_chain_id(st.t.block_indices, st.block_joint.hash)
         IN  IF chain_id \notin DOMAIN st.t.chains
             THEN [st EXCEPT !.ret = "panic"]
             ELSE LET chain == st.t.chains[chain_id]
                      t1 == [st.t EXCEPT !.chains = MapDel(@, chain_id)]
                      sp == split_at_number(chain, st.block_joint_number)
                      t2 == IF sp[2] = None THEN t1
                            ELSE [t1 EXCEPT !.chains = MapPut(@, chain_id, sp[2])]
                  IN  IF ~HasBlocks(chain) \/ sp[1] = None
                      THEN [st EXCEPT !.t = t1, !.ret = "panic"]
                      ELSE IF ~HasBlocks(sp[1])
                      THEN [st EXCEPT !.t = t2, !.ret = "panic"]
                      ELSE PromoteLoop(
                              [t |-> t2,
                               block_joint |-> joint_block(chain),
                               block_joint_number |-> joint_block_number(sp[1]),
                               chains_to_promote |-> Append(st.chains_to_promote, sp[1]),
                               ret |-> "Ok"])

\* for chain in chains_to_promote.into_iter().rev(): append_chain(chain)?
RECURSIVE MergeFrom(_, _, _)
MergeFrom(new_canon_chain, chains_to_promote, i) ==
    IF i < 1 THEN new_canon_chain
    ELSE MergeFrom(append_chain(new_canon_chain, chains_to_promote[i]).chain,
                   chains_to_promote, i - 1)

\* new_canon_chain: the last chain collected, with the others appended, the
\* one collected first last.
MergePromoted(chains_to_promote) ==
    MergeFrom(chains_to_promote[Len(chains_to_promote)], chains_to_promote,
              Len(chains_to_promote) - 1)

\* make_canonical from old_tip on: the commit, or the revert, the commit and
\* the insert of the old canonical chain.  log is the calls it made, in order,
\* to revert_canonical, commit_canonical and insert_chain.
CommitPromoted(t, new_canon_chain) ==
    IF ~HasCanonical(t.block_indices) THEN [t |-> t, ret |-> "panic", log |-> <<>>]
    ELSE IF joint_block_hash(new_canon_chain) = canonical_tip(t.block_indices).hash
    THEN LET cm == commit_canonical(t, new_canon_chain)
         IN  [t |-> cm.t, ret |-> cm.ret, log |-> <<"commit_canonical">>]
    ELSE IF ~(/\ joint_block(new_canon_chain).number
                    \in DOMAIN t.block_indices.canonical_chain
              /\ canonical_hash(t.block_indices, joint_block(new_canon_chain).number)
                    = joint_block(new_canon_chain).hash)
    THEN [t |-> t, ret |-> "panic", log |-> <<>>]
    ELSE LET rv == revert_canonical(t, joint_block(new_canon_chain).number)
             cm == commit_canonical(rv.t, new_canon_chain)
             ic == insert_chain(cm.t, rv.chain)
         IN  [t |-> ic.t, ret |-> ic.ret,
              log |-> <<"revert_canonical", "commit_canonical", "insert_chain">>]

\* (NotInTree_Ok is the early return with Ok(()) for Err(()).)
NotInTree_Ok(t, block_hash) == [t |-> t, ret |-> "Ok", log |-> <<>>]

\* get_block_chain_id(block_hash).ok_or(())? on None: Err(()) is returned
\* before anything is written.
NotInTree(t, block_hash) == [t |-> t, ret |-> "Err", log |-> <<>>]

\* BlockchainTree::make_canonical.
make_canonical_fn(t, block_hash) ==
    IF block_hash \notin DOMAIN t.block_indices.blocks_to_chain
    THEN NotInTree(t, block_hash)
    ELSE LET chain_id == get_block_chain_id(t.block_indices, block_hash)
         IN  IF chain_id \notin DOMAIN t.chains
             THEN [t |-> t, ret |-> "panic", log |-> <<>>]
             ELSE LET t1 == [t EXCEPT !.chains = MapDel(@, chain_id)]
                      sp == split_at_block_hash(t.chains[chain_id], block_hash)
                      t2 == IF sp[2] = None THEN t1
                            ELSE [t1 EXCEPT !.chains = MapPut(@, chain_id, sp[2])]
                  IN  IF sp[1] = None
                      THEN [t |-> t1, ret |-> "panic", log |-> <<>>]
                      ELSE IF ~HasBlocks(sp[1])
                      THEN [t |-> t2, ret |-> "panic", log |-> <<>>]
                      ELSE LET lp == PromoteLoop(
                                        [t |-> t2,
                                         block_joint |-> joint_block(sp[1]),
                                         block_joint_number |-> joint_block_number(sp[1]),
                                         chains_to_promote |-> <<sp[1]>>,
                                         ret |-> "Ok"])
                           IN  IF lp.ret = "panic"
                               THEN [t |-> lp.t, ret |-> "panic", log |-> <<>>]
                               ELSE CommitPromoted(lp.t,
                                        MergePromoted(lp.chains_to_promote))

(***************************************************************************)
(* Session errors (crates/net/network/src/error.rs).  An error value is    *)
(* the path of its variants from the outermost enum inwards,               *)
(*   <<"P2PStreamError", "HandshakeError", "Disconnected", "UselessPeer">>,*)
(* without the payloads that no match of error.rs looks at.                *)
(***************************************************************************)
\* Option<T>: Some(x) or Absent.
Some(x) == <<x>>

Absent == <<>>

\* matches!(err, pattern): the path begins with the pattern; what follows
\* the pattern is what the pattern binds or leaves open with `_` or `..`.
Matches(err, pattern) ==
    /\ Len(err) >= Len(pattern)
    /\ SubSeq(err, 1, Len(pattern)) = pattern

\* The reasons of a devp2p disconnect: the six that error.rs names and the
\* ones its `_` arms stand for.
DisconnectReason ==
    {"DisconnectRequested", "TcpSubsystemError", "ProtocolBreach", "UselessPeer",
     "TooManyPeers", "AlreadyConnected", "IncompatibleP2PProtocolVersion",
     "NullNodeIdentity", "ClientQuitting", "UnexpectedHandshakeIdentity",
     "ConnectedToSelf", "PingTimeout", "SubprotocolSpecific"}

\* io::Error by its kind(): the three kinds named and three of the others.
ErrorKind ==
    {"ConnectionRefused", "ConnectionReset", "BrokenPipe",
     "TimedOut", "UnexpectedEof", "Other"}

io_Error == {<<kind>> : kind \in ErrorKind}

P2PHandshakeError ==
    {<<v>> : v \in {"HelloNotInHandshake", "NonHelloMessageInHandshake",
                    "NoSharedCapabilities", "NoResponse", "Timeout", "DecodeError"}}
        \cup {<<"Disconnected", reason>> : reason \in DisconnectReason}

P2PStreamError ==
    {<<"Io">> \o io : io \in io_Error}
        \cup {<<"HandshakeError">> \o err : err \in P2PHandshakeError}
        \cup {<<"Disconnected", reason>> : reason \in DisconnectReason}
        \cup {<<v>> : v \in {"Rlp", "Snap", "MessageTooBig", "UnknownReservedMessageId",
                             "UnknownDisconnectReason", "EmptyProtocolMessage",
                             "PingerError", "PingTimeout", "ParseVersionError",
                             "MismatchedProtocolVersion", "SendBufferFull"}}

EthHandshakeError ==
    {<<v>> : v \in {"StatusNotInHandshake", "NonStatusMessageInHandshake",
                    "NoResponse", "InvalidFork", "MismatchedGenesis",
                    "MismatchedProtocolVersion", "MismatchedChain"}}

EthStreamError ==
    {<<"P2PStreamError">> \o err : err \in P2PStreamError}
        \cup {<<"EthHandshakeError">> \o err : err \in EthHandshakeError}
        \cup {<<"EthInvalidMessageError">>, <<"MessageTooBig">>}

PendingSessionHandshakeError ==
    {<<"Eth">> \o eth : eth \in EthStreamError} \cup {<<"Ecies">>}

\* EthStreamError::as_io: the io::Error of a P2PStreamError::Io.
as_io(self) ==
    IF Matches(self, <<"P2PStreamError", "Io">>)
    THEN Some(SubSeq(self, 3, Len(self)))
    ELSE Absent

\* EthStreamError::as_disconnected: the reason of a disconnect, received in
\* the handshake or after it.
as_disconnected(self) ==
    IF \/ Matches(self, <<"P2PStreamError", "HandshakeError", "Disconnected">>)
       \/ Matches(self, <<"P2PStreamError", "Disconnected">>)
    THEN Some(self[Len(self)])
    ELSE Absent

\* impl SessionError for io::Error
io_Error_merits_discovery_ban(self) == FALSE

io_Error_is_fatal_protocol_error(self) == FALSE

io_Error_should_backoff(self) ==
    IF self[1] \in {"ConnectionRefused", "ConnectionReset", "BrokenPipe"}
    THEN Some("Low")
    ELSE Some("Medium")

\* impl SessionError for EthStreamError
EthStreamError_merits_discovery_ban(self) ==
    CASE Matches(self, <<"P2PStreamError", "HandshakeError", "HelloNotInHandshake">>)
            -> TRUE
      [] Matches(self, <<"P2PStreamError", "HandshakeError",
                         "NonHelloMessageInHandshake">>)
            -> TRUE
      [] Matches(self, <<"EthHandshakeError">>)
            -> ~Matches(Tail(self), <<"NoResponse">>)
      [] OTHER -> FALSE

\* The fatal list without the two handshake misuses that merit a ban.
EthStreamError_is_fatal_protocol_error_NoHello(self) ==
    CASE Matches(self, <<"P2PStreamError">>) ->
            LET err == Tail(self)
            IN  \/ Matches(err, <<"HandshakeError", "NoSharedCapabilities">>)
                \/ Matches(err, <<"HandshakeError", "Disconnected", "UselessPeer">>)
                \/ Matches(err, <<"HandshakeError", "Disconnected",
                                  "IncompatibleP2PProtocolVersion">>)
                \/ Matches(err, <<"HandshakeError", "Disconnected", "ProtocolBreach">>)
                \/ Matches(err, <<"UnknownReservedMessageId">>)
                \/ Matches(err, <<"EmptyProtocolMessage">>)
                \/ Matches(err, <<"ParseVersionError">>)
                \/ Matches(err, <<"Disconnected", "UselessPeer">>)
                \/ Matches(err, <<"Disconnected", "IncompatibleP2PProtocolVersion">>)
                \/ Matches(err, <<"Disconnected", "ProtocolBreach">>)
                \/ Matches(err, <<"MismatchedProtocolVersion">>)
      [] Matches(self, <<"EthHandshakeError">>)
            -> ~Matches(Tail(self), <<"NoResponse">>)
      [] OTHER -> FALSE

EthStreamError_is_fatal_protocol_error(self) ==
    CASE Matches(self, <<"P2PStreamError">>) ->
            LET err == Tail(self)
            IN  \/ Matches(err, <<"HandshakeError", "NoSharedCapabilities">>)
                \/ Matches(err, <<"HandshakeError", "HelloNotInHandshake">>)
                \/ Matches(err, <<"HandshakeError", "NonHelloMessageInHandshake">>)
                \/ Matches(err, <<"HandshakeError", "Disconnected", "UselessPeer">>)
                \/ Matches(err, <<"HandshakeError", "Disconnected",
                                  "IncompatibleP2PProtocolVersion">>)
                \/ Matches(err, <<"HandshakeError", "Disconnected", "ProtocolBreach">>)
                \/ Matches(err, <<"UnknownReservedMessageId">>)
                \/ Matches(err, <<"EmptyProtocolMessage">>)
                \/ Matches(err, <<"ParseVersionError">>)
                \/ Matches(err, <<"Disconnected", "UselessPeer">>)
                \/ Matches(err, <<"Disconnected", "IncompatibleP2PProtocolVersion">>)
                \/ Matches(err, <<"Disconnected", "ProtocolBreach">>)
                \/ Matches(err, <<"MismatchedProtocolVersion">>)
      [] Matches(self, <<"EthHandshakeError">>)
            -> ~Matches(Tail(self), <<"NoResponse">>)
      [] OTHER -> FALSE

\* The match of should_backoff on the variants, after the io error and the
\* disconnect reason were looked for.
BackoffOfVariant(self) ==
    IF \/ Matches(self, <<"EthHandshakeError", "NoResponse">>)
       \/ Matches(self, <<"P2PStreamError", "HandshakeError", "NoResponse">>)
       \/ Matches(self, <<"P2PStreamError", "PingTimeout">>)
    THEN Some("Low")
    ELSE IF \/ Matches(self, <<"P2PStreamError", "Rlp">>)
            \/ Matches(self, <<"P2PStreamError", "UnknownReservedMessageId">>)
            \/ Matches(self, <<"P2PStreamError", "UnknownDisconnectReason">>)
            \/ Matches(self, <<"P2PStreamError", "MessageTooBig">>)
            \/ Matches(self, <<"P2PStreamError", "EmptyProtocolMessage">>)
            \/ Matches(self, <<"P2PStreamError", "PingerError">>)
            \/ Matches(self, <<"P2PStreamError", "Snap">>)
         THEN Some("Medium")
         ELSE Absent

\* The disconnect reason asked for before the io error.
EthStreamError_should_backoff_ReasonFirst(self) ==
    IF as_disconnected(self) # Absent
    THEN IF as_disconnected(self)[1] \in
                {"TooManyPeers", "AlreadyConnected", "TcpSubsystemError"}
         THEN Some("Low")
         ELSE Some("High")
    ELSE BackoffOfVariant(self)

EthStreamError_should_backoff(self) ==
    IF as_io(self) # Absent
    THEN io_Error_should_backoff(as_io(self)[1])
    ELSE IF as_disconnected(self) # Absent
         THEN IF as_disconnected(self)[1] \in
                    {"TooManyPeers", "AlreadyConnected", "TcpSubsystemError"}
              THEN Some("Low")
              ELSE Some("High")
         ELSE BackoffOfVariant(self)

\* impl SessionError for PendingSessionHandshakeError
PendingSessionHandshakeError_merits_discovery_ban(self) ==
    IF Matches(self, <<"Eth">>)
    THEN EthStreamError_merits_discovery_ban(Tail(self))
    ELSE TRUE

PendingSessionHandshakeError_is_fatal_protocol_error(self) ==
    IF Matches(self, <<"Eth">>)
    THEN EthStreamError_is_fatal_protocol_error(Tail(self))
    ELSE TRUE

PendingSessionHandshakeError_should_backoff(self) ==
    IF Matches(self, <<"Eth">>)
    THEN EthStreamError_should_backoff(Tail(self))
    ELSE Some("Low")

\* What the three methods of the SessionError trait answer for one error.
SessionError(impl, self, ban, fatal, backoff) ==
    [impl |-> impl, err |-> self, merits_discovery_ban |-> ban,
     is_fatal_protocol_error |-> fatal, should_backoff |-> backoff]

\* No session has failed yet.
NoSession == SessionError("-", <<>>, FALSE, FALSE, Absent)

(***************************************************************************)
(* The state: the fields of the tree, the PendingBlocks table of its db,   *)
(* the last call with how it ended, and the error that the last failed     *)
(* session of the network ended with.                                      *)
(***************************************************************************)
VARIABLES chains, chain_id_generator, block_indices, finalized_block, db, call,
          session

vars ==
    <<chains, chain_id_generator, block_indices, finalized_block, db, call, session>>

Tree ==
    [chains |-> chains, chain_id_generator |-> chain_id_generator,
     block_indices |-> block_indices, finalized_block |-> finalized_block, db |-> db]

Becomes(t) ==
    /\ chains' = t.chains
    /\ chain_id_generator' = t.chain_id_generator
    /\ block_indices' = t.block_indices
    /\ finalized_block' = t.finalized_block
    /\ db' = t.db
    /\ session' = session

\* header_ok and db_ok are what the consensus and the store answer during an
\* insert_block; the other calls ask neither.  log is what a
\* make_canonical called of revert_canonical, commit_canonical and
\* insert_chain, in order.
Call(op, block, number, hash, ret) ==
    [op |-> op, block |-> block, number |-> number, hash |-> hash,
     header_ok |-> TRUE, db_ok |-> TRUE, log |-> <<>>, ret |-> ret]

\* A call that panicked or never returns is the last one: the tree has one
\* owner and the calls run one after the other.
Running == call.ret \notin {"panic", "diverges"}

(***************************************************************************)
(* The seeded trees: finalized_block 0, the canonical window C0..C(SeedTip)*)
(* and side chains put in with insert_chain: lane A on C(ForkA), lane B on *)
(* A(ForkB) once lane A reaches past it, lane P on the canonical tip.      *)
(***************************************************************************)
LaneChain(lane, from, len) == ChainOf([i \in 1..len |-> SealedBlock(lane, from + i)])

EmptyTree ==
    [chains |-> EmptyMap, chain_id_generator |-> 0,
     block_indices |->
        [BlockIndicesDefault EXCEPT
            !.canonical_chain = [n \in 0..SeedTip |-> <<"C", n>>]],
     finalized_block |-> 0,
     db |-> [PendingBlocks |-> {}]]

\* A chain of a seeded tree is indexed and its blocks are in PendingBlocks.
Seeded(t, chain) ==
    IF chain.blocks = <<>> THEN t
    ELSE [insert_chain(t, chain).t EXCEPT
            !.db.PendingBlocks = @ \cup {b.hash : b \in Range(chain.blocks)}]

SeedTree(la, lb, lp) ==
    Seeded(Seeded(Seeded(EmptyTree, LaneChain("A", ForkA, la)),
                  LaneChain("B", ForkB, lb)),
           LaneChain("P", SeedTip, lp))

SeedLens ==
    {s \in (0..MaxSeedLen) \X (0..MaxSeedLen) \X (0..MaxSeedLen) :
        /\ ForkA + s[1] <= max_chain_length
        /\ ForkB + s[2] <= max_chain_length
        /\ SeedTip + s[3] <= max_chain_length
        /\ s[2] > 0 => ForkA + s[1] > ForkB}

Init ==
    /\ \E s \in SeedLens : 
        /\ chains = SeedTree(s[1], s[2], s[3]).chains
        /\ chain_id_generator = SeedTree(s[1], s[2], s[3]).chain_id_generator
        /\ block_indices = SeedTree(s[1], s[2], s[3]).block_indices
        /\ finalized_block = SeedTree(s[1], s[2], s[3]).finalized_block
        /\ db = SeedTree(s[1], s[2], s[3]).db
    /\ call = Call("new", NoBlock, 0, NoHash, "Ok")
    /\ session = NoSession

(***************************************************************************)
(* The public operations.                                                  *)
(***************************************************************************)
insert_block(block, header_ok, db_ok) ==
    /\ Running
    /\ LET r == insert_block_fn(Tree, block, header_ok, db_ok)
       IN  /\ Becomes(r.t)
           /\ call' = [Call("insert_block", block, 0, NoHash, r.ret)
                          EXCEPT !.header_ok = header_ok, !.db_ok = db_ok]

finalize_block(n) ==
    /\ Running
    /\ LET r == finalize_block_fn(Tree, n)
       IN  Becomes(r.t) /\ call' = Call("finalize_block", NoBlock, n, NoHash, r.ret)

make_canonical(block_hash) ==
    /\ Running
    /\ LET r == make_canonical_fn(Tree, block_hash)
       IN  /\ Becomes(r.t)
           /\ call' = [Call("make_canonical", NoBlock, 0, block_hash, r.ret)
                          EXCEPT !.log = r.log]

Next ==
    \/ \E block \in Blocks, db_ok \in BOOLEAN :
            \E header_ok \in Verdicts(block) : insert_block(block, header_ok, db_ok)
    \/ \E n \in BlockNumbers : finalize_block(n)
    \/ \E block_hash \in Hashes : make_canonical(block_hash)

Spec == Init /\ [][Next]_vars

(***************************************************************************)
(* The failed sessions: each one ends with an error of one of the three    *)
(* types that implement SessionError, and the three methods are asked.     *)
(***************************************************************************)
SessionInit ==
    /\ chains = EmptyTree.chains
    /\ chain_id_generator = EmptyTree.chain_id_generator
    /\ block_indices = EmptyTree.block_indices
    /\ finalized_block = EmptyTree.finalized_block
    /\ db = EmptyTree.db
    /\ call = Call("new", NoBlock, 0, NoHash, "Ok")
    /\ session = NoSession

TreeUnchanged ==
    UNCHANGED <<chains, chain_id_generator, block_indices, finalized_block, db, call>>

on_EthStreamError(err) ==
    /\ session' = SessionError("EthStreamError", err,
                        EthStreamError_merits_discovery_ban(err),
                        EthStreamError_is_fatal_protocol_error(err),
                        EthStreamError_should_backoff(err))
    /\ TreeUnchanged

on_PendingSessionHandshakeError(err) ==
    /\ session' = SessionError("PendingSessionHandshakeError", err,
                        PendingSessionHandshakeError_merits_discovery_ban(err),
                        PendingSessionHandshakeError_is_fatal_protocol_error(err),
                        PendingSessionHandshakeError_should_backoff(err))
    /\ TreeUnchanged

on_io_Error(err) ==
    /\ session' = SessionError("io::Error", err,
                        io_Error_merits_discovery_ban(err),
                        io_Error_is_fatal_protocol_error(err),
                        io_Error_should_backoff(err))
    /\ TreeUnchanged

SessionNext ==
    \/ \E err \in EthStreamError : on_EthStreamError(err)
    \/ \E err \in PendingSessionHandshakeError : on_PendingSessionHandshakeError(err)
    \/ \E err \in io_Error : on_io_Error(err)

SessionSpec == SessionInit /\ [][SessionNext]_vars

(***************************************************************************)
(* What the claims speak of.                                               *)
(***************************************************************************)
\* The last call returned (a value or an error).
Returned == call.ret \notin {"panic", "diverges"}

\* The tree is left to its owner: the last call returned, or it panicked and
\* unwound.  A call that never returns leaves nothing to look at.
Left == call.ret # "diverges"

ChainIds == DOMAIN chains

BlocksOf(cid) == Range(chains[cid].blocks)

HashesOf(cid) == {b.hash : b \in BlocksOf(cid)}

Indexed(cid, b) ==
    /\ b.hash \in DOMAIN block_indices.blocks_to_chain
    /\ block_indices.blocks_to_chain[b.hash] = cid
    /\ b.number \in DOMAIN block_indices.number_to_block
    /\ b.hash \in block_indices.number_to_block[b.number]

JointIsCanonical(c) ==
    /\ joint_block(c).number \in DOMAIN block_indices.canonical_chain
    /\ block_indices.canonical_chain[joint_block(c).number] = joint_block(c).hash

JointIsInTree(c) == joint_block(c).hash \in DOMAIN block_indices.blocks_to_chain

CanonicalKeys == DOMAIN block_indices.canonical_chain

(***************************************************************************)
(* C1.  After a call that returned Ok every block of every chain is        *)
(* indexed:                                                                *)
(* blocks_to_chain maps its hash to the chain's id and number_to_block     *)
(* holds its hash at its number; so also a block that insert_block         *)
(* appended to the tip of a side chain.                                    *)
(* Fails: join_block_to_chain appends the block and writes no index.       *)
(***************************************************************************)
C1_BlocksIndexed ==
    call.ret = "Ok" => \A cid \in ChainIds : \A b \in BlocksOf(cid) : Indexed(cid, b)

(***************************************************************************)
(* C2.  Every key h of blocks_to_chain is a block of the chain             *)
(* chains[blocks_to_chain[h]], which exists, and of no other chain, and h  *)
(* is in number_to_block at its number: no index entry outlives the chain  *)
(* it points to.                                                           *)
(* Fails: make_canonical takes the chain out of chains and then panics on  *)
(* the split; commit_canonical removes nothing from the indices.           *)
(***************************************************************************)
C2_NoStaleIndex ==
    Left => \A h \in DOMAIN block_indices.blocks_to_chain :
        /\ block_indices.blocks_to_chain[h] \in ChainIds
        /\ \A cid \in ChainIds :
              h \in HashesOf(cid) <=> cid = block_indices.blocks_to_chain[h]
        /\ \A cid \in ChainIds : \A b \in BlocksOf(cid) :
              b.hash = h =>
                /\ b.number \in DOMAIN block_indices.number_to_block
                /\ h \in block_indices.number_to_block[b.number]

(***************************************************************************)
(* C3.  For every chain of chains exactly one holds: its joint is the      *)
(* canonical block at the joint's number, or the joint's hash is a key of  *)
(* blocks_to_chain.                                                        *)
(***************************************************************************)
C3_JointXor ==
    Left => \A cid \in ChainIds :
        /\ HasBlocks(chains[cid])
        /\ JointIsCanonical(chains[cid]) <=> ~JointIsInTree(chains[cid])

\* finalize_block returned after discarding canonical blocks from under a
\* tree that holds a chain joined to a canonical block and a chain joined to
\* a block of another chain.
C3_Witness ==
    /\ call.op = "finalize_block" /\ call.ret = "Ok"
    /\ 0 \notin CanonicalKeys
    /\ \E cid \in ChainIds : JointIsCanonical(chains[cid])
    /\ \E cid \in ChainIds : JointIsInTree(chains[cid])

(***************************************************************************)
(* C4.  For every key k of fork_to_child, fork_to_child[k] is exactly the  *)
(* set of the hashes of the first blocks of the chains whose joint hash is *)
(* k, and the first block of every chain is listed under its joint hash.   *)
(* Fails: make_canonical takes the chain out of chains and panics; the     *)
(* chain's first block stays listed under its joint.                       *)
(***************************************************************************)
C4_ForkToChildExact ==
    Left =>
        /\ \A k \in DOMAIN block_indices.fork_to_child :
              block_indices.fork_to_child[k] =
                {first(chains[cid]).hash :
                    cid \in {c \in ChainIds : HasBlocks(chains[c])
                                              /\ joint_block_hash(chains[c]) = k}}
        /\ \A cid \in ChainIds :
              /\ HasBlocks(chains[cid])
              /\ joint_block_hash(chains[cid]) \in DOMAIN block_indices.fork_to_child

(***************************************************************************)
(* C5.  After a call returns the keys of canonical_chain are a contiguous  *)
(* range whose least key is finalized_block; finalize_block(n) leaves key  *)
(* n in the window.                                                        *)
(* Fails: finalize_canonical_blocks keeps the keys above n only.           *)
(***************************************************************************)
C5_WindowFromFinalized ==
    Returned =>
        /\ CanonicalKeys # {}
        /\ CanonicalKeys = Min(CanonicalKeys)..Max(CanonicalKeys)
        /\ Min(CanonicalKeys) = finalized_block

(***************************************************************************)
(* C6.  canonical_chain is never empty, whatever n finalize_block is       *)
(* called with.                                                            *)
(* Fails: finalize_block(n) with n at or above the tip keeps no key.       *)
(***************************************************************************)
C6_CanonicalNeverEmpty == Returned => CanonicalKeys # {}

TreeVars == <<chains, chain_id_generator, block_indices, finalized_block, db>>

\* A step whose call' is an insert_block is the call insert_block(call'.block).
C8_AdmissionErrors ==
    [][call'.op = "insert_block" =>
            /\ call'.block.number <= finalized_block =>
                  call'.ret = "PendingBlockIsFinalized" /\ UNCHANGED TreeVars
            /\ call'.block.number > finalized_block + max_chain_length =>
                  call'.ret = "PendingBlockIsInFuture" /\ UNCHANGED TreeVars]_vars

\* A block one above the admission bound is rejected although its parent is
\* a block of the tree.
C8_Witness ==
    /\ call.op = "insert_block" /\ call.ret = "PendingBlockIsInFuture"
    /\ call.block.number = finalized_block + max_chain_length + 1
    /\ ParentInTree(Tree, call.block)

(***************************************************************************)
(* C9.  insert_block(b) of an admissible block whose parent_hash is no key *)
(* of blocks_to_chain and not the canonical hash at b.number - 1 returns   *)
(* Ok, leaves chains, the indices and chain_id_generator as they were and  *)
(* writes nothing to PendingBlocks.                                        *)
(***************************************************************************)
C9_UnknownParent ==
    [][(/\ call'.op = "insert_block"
        /\ call'.block.number > finalized_block
        /\ call'.block.number <= finalized_block + max_chain_length
        /\ call'.block.parent_hash \notin DOMAIN block_indices.blocks_to_chain
        /\ ~(/\ call'.block.number - 1 \in CanonicalKeys
             /\ block_indices.canonical_chain[call'.block.number - 1]
                    = call'.block.parent_hash))
       => call'.ret = "Ok" /\ UNCHANGED TreeVars]_vars

\* An admissible block with an unknown parent was inserted: its parent is a
\* block that an earlier insert_block appended to a chain and left unindexed,
\* or a block nobody holds.
C9_Witness ==
    /\ call.op = "insert_block" /\ call.ret = "Ok"
    /\ call.block.number > finalized_block
    /\ call.block.number <= finalized_block + max_chain_length
    /\ call.block.parent_hash \notin DOMAIN block_indices.blocks_to_chain
    /\ ~(/\ call.block.number - 1 \in CanonicalKeys
         /\ block_indices.canonical_chain[call.block.number - 1] = call.block.parent_hash)
    /\ call.block.hash \notin db.PendingBlocks

(***************************************************************************)
(* C10.  insert_block(b) of an admissible block, not itself canonical,     *)
(* whose parent is the canonical block at b.number - 1, and in no side     *)
(* chain, returns without panicking and adds exactly one                   *)
(* chain, under the id chain_id_generator had, with the blocks <<b>> and   *)
(* the joint (b.number - 1, b.parent_hash); b.hash is indexed to that id   *)
(* and is in fork_to_child[b.parent_hash]; the canonical tip is unchanged. *)
(* Fails: new_canonical_joint returns the default chain, without blocks,   *)
(* and insert_chain panics in chain.first().                               *)
(***************************************************************************)
C10_NewChainOnCanonical ==
    [][(/\ call'.op = "insert_block"
        /\ call'.block.number > finalized_block
        /\ call'.block.number <= finalized_block + max_chain_length
        /\ call'.block.parent_hash \notin DOMAIN block_indices.blocks_to_chain
        /\ \A k \in CanonicalKeys : block_indices.canonical_chain[k] # call'.block.hash
        /\ call'.block.number - 1 \in CanonicalKeys
        /\ block_indices.canonical_chain[call'.block.number - 1] = call'.block.parent_hash)
       =>
        /\ call'.ret \in {"Ok", "DbError"}
        /\ DOMAIN chains' = ChainIds \cup {chain_id_generator}
        /\ chain_id_generator \notin ChainIds
        /\ \A cid \in ChainIds : chains'[cid] = chains[cid]
        /\ chains'[chain_id_generator].blocks = <<call'.block>>
        /\ joint_block(chains'[chain_id_generator]) =
              [number |-> call'.block.number - 1, hash |-> call'.block.parent_hash]
        /\ call'.block.hash \in DOMAIN block_indices'.blocks_to_chain
        /\ block_indices'.blocks_to_chain[call'.block.hash] = chain_id_generator
        /\ call'.block.parent_hash \in DOMAIN block_indices'.fork_to_child
        /\ call'.block.hash \in block_indices'.fork_to_child[call'.block.parent_hash]
        /\ block_indices'.canonical_chain = block_indices.canonical_chain]_vars

(***************************************************************************)
(* C11.  A run of blocks inserted parent to child grows one chain: every   *)
(* insert_block of an admissible block that passes validation and is       *)
(* stored, whose parent is the tip of a side chain, returns Ok, appends    *)
(* the block to that chain and creates no chain.                           *)
(* Fails: the block that the previous insert_block appended is in no       *)
(* index, so its child is dropped as a block without parent; and the first *)
(* block of a run on a canonical parent creates no chain (C10).            *)
(***************************************************************************)
\* The chains whose tip is the parent of block.
TipChains(block) ==
    {cid \in ChainIds : HasBlocks(chains[cid])
                        /\ tip(chains[cid]).hash = block.parent_hash}

C11_RunExtendsOneChain ==
    [][(/\ call'.op = "insert_block"
        /\ call'.header_ok /\ call'.db_ok
        /\ call'.block.number > finalized_block
        /\ call'.block.number <= finalized_block + max_chain_length
        /\ TipChains(call'.block) # {})
       =>
        /\ call'.ret = "Ok"
        /\ DOMAIN chains' = ChainIds
        /\ \A cid \in ChainIds :
              chains'[cid].blocks =
                IF cid \in TipChains(call'.block)
                THEN Append(chains[cid].blocks, call'.block)
                ELSE chains[cid].blocks]_vars

(***************************************************************************)
(* C12.  insert_block(b) of an admissible, valid, new block whose parent   *)
(* is a block of a side chain X and not the tip of X returns Ok, leaves    *)
(* the blocks of X (and of every other chain) as they were, adds one chain *)
(* <<b>> under the id chain_id_generator had, with the joint               *)
(* (b.number - 1, b.parent_hash), and lists b.hash in                      *)
(* fork_to_child[b.parent_hash].                                           *)
(* Fails: new_chain_joint returns the default chain, without blocks, and   *)
(* insert_chain panics in chain.first().                                   *)
(***************************************************************************)
\* The chains that hold the parent of block below their tip.
InnerChains(block) ==
    {cid \in ChainIds : /\ block.parent_hash \in HashesOf(cid)
                        /\ tip(chains[cid]).hash # block.parent_hash}

C12_ForkInsideChain ==
    [][(/\ call'.op = "insert_block"
        /\ call'.header_ok /\ call'.db_ok
        /\ call'.block.number > finalized_block
        /\ call'.block.number <= finalized_block + max_chain_length
        /\ call'.block.hash \notin DOMAIN block_indices.blocks_to_chain
        /\ InnerChains(call'.block) # {})
       =>
        /\ call'.ret = "Ok"
        /\ DOMAIN chains' = ChainIds \cup {chain_id_generator}
        /\ chain_id_generator \notin ChainIds
        /\ \A cid \in ChainIds : chains'[cid].blocks = chains[cid].blocks
        /\ chains'[chain_id_generator].blocks = <<call'.block>>
        /\ joint_block(chains'[chain_id_generator]) =
              [number |-> call'.block.number - 1, hash |-> call'.block.parent_hash]
        /\ call'.block.parent_hash \in DOMAIN block_indices'.fork_to_child
        /\ call'.block.hash \in block_indices'.fork_to_child[call'.block.parent_hash]]_vars

(***************************************************************************)
(* The promotion path of an indexed hash h: the blocks of its chain up to  *)
(* h, then the blocks of the chain its joint lies in up to the joint, and  *)
(* so on down to a joint that is no block of the tree.                     *)
(***************************************************************************)
\* h is a key of blocks_to_chain that leads to a chain holding h.
OnChain(h) ==
    /\ h \in DOMAIN block_indices.blocks_to_chain
    /\ block_indices.blocks_to_chain[h] \in ChainIds
    /\ h \in HashesOf(block_indices.blocks_to_chain[h])

BlockOf(h) == CHOOSE b \in BlocksOf(block_indices.blocks_to_chain[h]) : b.hash = h

\* The blocks of the chain of h from its first block to h.
UpTo(h) ==
    {b \in BlocksOf(block_indices.blocks_to_chain[h]) : b.number <= BlockOf(h).number}

RECURSIVE PromotionPath(_)
PromotionPath(h) ==
    IF ~OnChain(h) THEN {}
    ELSE UpTo(h) \cup
         PromotionPath(joint_block_hash(chains[block_indices.blocks_to_chain[h]]))

\* The joint the path of h ends in.
RECURSIVE PathJoint(_)
PathJoint(h) ==
    LET j == joint_block(chains[block_indices.blocks_to_chain[h]])
    IN  IF OnChain(j.hash) THEN PathJoint(j.hash) ELSE j

\* make_canonical is called with an indexed hash whose path ends in the
\* canonical block j.
Promotes(c, j) ==
    /\ c.op = "make_canonical"
    /\ OnChain(c.hash)
    /\ PathJoint(c.hash) = j
    /\ j.number \in CanonicalKeys
    /\ block_indices.canonical_chain[j.number] = j.hash

\* After the step block b is canonical and gone from the side of the tree.
Promoted(b) ==
    /\ b.number \in DOMAIN block_indices'.canonical_chain
    /\ block_indices'.canonical_chain[b.number] = b.hash
    /\ \A cid \in DOMAIN chains' : b \notin Range(chains'[cid].blocks)
    /\ b.hash \notin DOMAIN block_indices'.blocks_to_chain
    /\ \A n \in DOMAIN block_indices'.number_to_block :
          b.hash \notin block_indices'.number_to_block[n]
    /\ b.hash \notin db'.PendingBlocks

(***************************************************************************)
(* C13.  Fast-forward: make_canonical(h) of an indexed hash whose path     *)
(* ends in the canonical tip returns Ok; then the canonical tip is         *)
(* (number(h), h), every block of the path is canonical at its number and  *)
(* is in no chain, not in blocks_to_chain, number_to_block or              *)
(* PendingBlocks.                                                          *)
(* Fails: split_at_block_hash returns (None, None) and make_canonical      *)
(* panics on it, after taking the chain out of chains.                     *)
(***************************************************************************)
C13_FastForward ==
    [][(/\ HasCanonical(block_indices)
        /\ Promotes(call', canonical_tip(block_indices)))
       =>
        /\ call'.ret = "Ok"
        /\ HasCanonical(block_indices')
        /\ canonical_tip(block_indices') =
              [number |-> BlockOf(call'.hash).number, hash |-> call'.hash]
        /\ \A b \in PromotionPath(call'.hash) : Promoted(b)]_vars

(***************************************************************************)
(* C14.  Reorg: make_canonical(h) of an indexed hash whose path ends in a  *)
(* canonical block J below the canonical tip returns Ok; then              *)
(* canonical_chain is the old one up to J followed by the path up to h,    *)
(* and the old canonical blocks above J are the blocks, in order, of one   *)
(* new chain under the id chain_id_generator had, indexed to it, whose     *)
(* joint is J.                                                             *)
(* Fails: make_canonical panics on the split; revert_canonical returns a   *)
(* chain without blocks.                                                   *)
(***************************************************************************)
\* The canonical hashes above number n, lowest first.
CanonicalAbove(n) ==
    [i \in 1..(Max(CanonicalKeys) - n) |-> block_indices.canonical_chain[n + i]]

C14_Reorg ==
    [][(/\ HasCanonical(block_indices)
        /\ OnChain(call'.hash)
        /\ Promotes(call', PathJoint(call'.hash))
        /\ PathJoint(call'.hash).number < canonical_tip(block_indices).number)
       =>
        LET J == PathJoint(call'.hash)
            path == PromotionPath(call'.hash)
            old == chain_id_generator
        IN  /\ call'.ret = "Ok"
            /\ DOMAIN block_indices'.canonical_chain =
                  {k \in CanonicalKeys : k <= J.number} \cup {b.number : b \in path}
            /\ \A k \in CanonicalKeys :
                  k <= J.number =>
                    block_indices'.canonical_chain[k] = block_indices.canonical_chain[k]
            /\ \A b \in path : block_indices'.canonical_chain[b.number] = b.hash
            /\ old \in DOMAIN chains' /\ old \notin ChainIds
            /\ [i \in DOMAIN chains'[old].blocks |-> chains'[old].blocks[i].hash]
                  = CanonicalAbove(J.number)
            /\ joint_block(chains'[old]) = J
            /\ \A b \in Range(chains'[old].blocks) :
                  /\ b.hash \in DOMAIN block_indices'.blocks_to_chain
                  /\ block_indices'.blocks_to_chain[b.hash] = old
                  /\ b.number \in DOMAIN block_indices'.number_to_block
                  /\ b.hash \in block_indices'.number_to_block[b.number]]_vars

(***************************************************************************)
(* C15.  finalize_block(n) terminates from every reachable state and for   *)
(* every n: the loop over the chains to remove ends, also when a side      *)
(* chain branches from a discarded canonical block.                        *)
(* Fails: the loop reads remove_chains.first() and never takes it out of   *)
(* the set; once that chain is removed from chains the loop spins on the   *)
(* same id for ever.                                                       *)
(***************************************************************************)
C15_FinalizeTerminates == call.op = "finalize_block" => call.ret # "diverges"

(***************************************************************************)
(* C16.  Cascading finalize: finalize_block(n) called on a tree with a     *)
(* chain whose joint is a canonical block below n returns, and then that   *)
(* chain, and every chain whose joint lies in a chain so removed, is not   *)
(* in chains and none of their hashes is a key of blocks_to_chain.         *)
(* Fails: with a chain to remove the loop of finalize_block never exits    *)
(* (C15), so the call does not return.                                     *)
(***************************************************************************)
\* The chains that go with the canonical blocks below n: those joined to
\* one of them, and those joined to a block of a chain of acc.
RECURSIVE Cascade(_, _)
Cascade(acc, n) ==
    LET more == {cid \in ChainIds \ acc :
                    /\ HasBlocks(chains[cid])
                    /\ \/ /\ JointIsCanonical(chains[cid])
                          /\ joint_block(chains[cid]).number < n
                       \/ \E x \in acc : joint_block_hash(chains[cid]) \in HashesOf(x)}
    IN  IF more = {} THEN acc ELSE Cascade(acc \cup more, n)

C16_CascadingFinalize ==
    [][(call'.op = "finalize_block" /\ Cascade({}, call'.number) # {})
       =>
        /\ call'.ret = "Ok"
        /\ \A cid \in Cascade({}, call'.number) :
              /\ cid \notin DOMAIN chains'
              /\ \A h \in HashesOf(cid) :
                    h \notin DOMAIN block_indices'.blocks_to_chain]_vars

(***************************************************************************)
(* C17.  make_canonical(h) with h no key of blocks_to_chain returns Err    *)
(* and leaves chains, the indices, finalized_block, chain_id_generator and *)
(* the PendingBlocks table as they were.                                   *)
(***************************************************************************)
C17_UnknownHashErr ==
    [][(/\ call'.op = "make_canonical"
        /\ call'.hash \notin DOMAIN block_indices.blocks_to_chain)
       => call'.ret = "Err" /\ UNCHANGED TreeVars]_vars

\* make_canonical was refused for a hash that is in no index although a
\* chain of the tree holds the block (an insert_block appended it).
C17_Witness ==
    /\ call.op = "make_canonical" /\ call.ret = "Err"
    /\ call.hash \notin DOMAIN block_indices.blocks_to_chain
    /\ \E cid \in ChainIds : call.hash \in HashesOf(cid)

(***************************************************************************)
(* C18.  insert_block(b) of an admissible block whose header the consensus *)
(* rejects, on each of the three routes (parent is the tip of a side       *)
(* chain, parent is inside a side chain, parent is canonical), returns an  *)
(* error and leaves chains, the indices, chain_id_generator,               *)
(* finalized_block and PendingBlocks as they were.                         *)
(* Fails: append_block drops the result of validate_header and pushes the  *)
(* block; the two routes that create a chain validate nothing.             *)
(***************************************************************************)
C18_InvalidBlockRejected ==
    [][(/\ call'.op = "insert_block"
        /\ ~call'.header_ok
        /\ call'.block.number > finalized_block
        /\ call'.block.number <= finalized_block + max_chain_length
        /\ \/ ParentInTree(Tree, call'.block)
           \/ ParentIsCanonical(Tree, call'.block))
       =>
        /\ call'.ret \notin {"Ok", "panic"}
        /\ UNCHANGED TreeVars]_vars

(***************************************************************************)
(* C19.  An insert_block that reaches the write to PendingBlocks and is    *)
(* refused by the store returns the storage error with chains and the      *)
(* indices as they were before the call.                                   *)
(* Fails: the block is appended to its chain before the put, and the ? on  *)
(* the put returns without taking it out again.                            *)
(***************************************************************************)
C19_StoreFailureRollsBack ==
    [][(call'.op = "insert_block" /\ call'.ret = "DbError")
       => chains' = chains /\ block_indices' = block_indices]_vars

(***************************************************************************)
(* C20.  A reorg that fails is rolled back: when make_canonical(h), with   *)
(* the path of h ending in a canonical block below the tip, does not end   *)
(* in Ok, it returns Err and chains and the indices are as before the      *)
(* call, so every chain taken out of chains on the way is present again.   *)
(* Fails: append_chain and commit_canonical cannot fail here, the failure  *)
(* a reorg does meet is the panic on the split, and it leaves the chain    *)
(* removed; no statement of make_canonical puts a removed chain back.      *)
(***************************************************************************)
C20_FailedReorgRollsBack ==
    [][(/\ HasCanonical(block_indices)
        /\ OnChain(call'.hash)
        /\ Promotes(call', PathJoint(call'.hash))
        /\ PathJoint(call'.hash).number < canonical_tip(block_indices).number
        /\ call'.ret # "Ok")
       =>
        /\ call'.ret = "Err"
        /\ chains' = chains
        /\ block_indices' = block_indices]_vars

(***************************************************************************)
(* C21.  After every call that returns, the keys of the PendingBlocks      *)
(* table are exactly the hashes of the blocks that the chains of the tree  *)
(* hold.                                                                   *)
(* Fails: insert_block appends the block before the put and keeps it when  *)
(* the put is refused; nothing in the tree ever deletes from the table.    *)
(***************************************************************************)
TreeHashes == UNION {HashesOf(cid) : cid \in ChainIds}

C21_PendingMatchesTree == Returned => db.PendingBlocks = TreeHashes

(***************************************************************************)
(* C22.  A block is held once: insert_block of a block that a chain of the *)
(* tree already holds either returns Ok and changes nothing, or returns an *)
(* error; it does not panic and does not add the block a second time.      *)
(* Fails: the second insert_block of a block takes the route that creates  *)
(* a chain and panics in insert_chain.                                     *)
(***************************************************************************)
\* No hash is a block of two chains, twice a block of one chain, or both
\* canonical and a block of a chain.
HeldOnce ==
    /\ \A c \in ChainIds : \A d \in ChainIds \ {c} : HashesOf(c) \cap HashesOf(d) = {}
    /\ \A c \in ChainIds : Cardinality(HashesOf(c)) = Len(chains[c].blocks)
    /\ \A k \in CanonicalKeys : block_indices.canonical_chain[k] \notin TreeHashes

C22_SecondInsert ==
    [][(call'.op = "insert_block" /\ call'.block.hash \in TreeHashes)
       =>
        /\ \/ call'.ret = "Ok" /\ UNCHANGED TreeVars
           \/ call'.ret \notin {"Ok", "panic"}
        /\ \A cid \in DOMAIN chains' :
              Len(SelectSeq(chains'[cid].blocks, LAMBDA b : b.hash = call'.block.hash))
                <= 1]_vars

(***************************************************************************)
(* C23.  Chain ids are not reused: chain_id_generator never decreases, and *)
(* it is above every key of chains and every value of blocks_to_chain, so  *)
(* the id a later chain gets was never the id of a chain, also not of one  *)
(* that was removed.                                                       *)
(***************************************************************************)
C23_IdsAboveAll ==
    /\ \A cid \in ChainIds : cid < chain_id_generator
    /\ \A h \in DOMAIN block_indices.blocks_to_chain :
          block_indices.blocks_to_chain[h] < chain_id_generator

C23_GeneratorMonotone == [][chain_id_generator' >= chain_id_generator]_vars

C23_IdsNeverReused == []C23_IdsAboveAll /\ C23_GeneratorMonotone

\* insert_block went into insert_chain, which took an id: the generator is
\* past the ids of the chains the tree holds by more than one.
C23_Witness ==
    /\ call.op = "insert_block" /\ call.ret = "panic"
    /\ ChainIds # {}
    /\ chain_id_generator > Max(ChainIds) + 1

(***************************************************************************)
(* C24.  Canonicalize, then canonicalize the parent: after a               *)
(* make_canonical(h) that returned Ok, make_canonical of the parent of h,  *)
(* which is canonical by then, does not panic and leaves canonical_chain,  *)
(* chains, the indices and finalized_block as they were.                   *)
(* Fails: the first make_canonical does not return Ok, it panics on the    *)
(* split (C13).                                                            *)
(***************************************************************************)
\* The tree after the step.
TreeAfter ==
    [chains |-> chains', chain_id_generator |-> chain_id_generator',
     block_indices |-> block_indices', finalized_block |-> finalized_block',
     db |-> db']

C24_ThenParentNoOp ==
    [][(/\ call'.op = "make_canonical"
        /\ OnChain(call'.hash)
        /\ Promotes(call', PathJoint(call'.hash)))
       =>
        /\ call'.ret = "Ok"
        /\ LET r == make_canonical_fn(TreeAfter, BlockOf(call'.hash).parent_hash)
           IN  /\ r.ret # "panic"
               /\ r.t = TreeAfter]_vars

(***************************************************************************)
(* C25.  finalized_block never decreases: a finalize_block(n) with n below *)
(* finalized_block does not lower it, so a block at or below a height that *)
(* was finalized once is not admitted later.                               *)
(* Fails: finalize_block assigns its argument to finalized_block without   *)
(* comparing the two.                                                      *)
(***************************************************************************)
C25_FinalizedMonotone == [][finalized_block' >= finalized_block]_vars

(***************************************************************************)
(* C26.  Partial promotion: make_canonical(h) of a block h of chain cid    *)
(* below its tip returns Ok and leaves the blocks of cid above h in chains *)
(* under the same id, in order, with the joint (number(h), h), indexed to  *)
(* cid, the first of them listed in fork_to_child[h].                      *)
(* Fails: split_at_block_hash returns (None, None): make_canonical panics  *)
(* with the whole chain removed.                                           *)
(***************************************************************************)
\* The blocks of the chain of h above h, in order.
Suffix(h) ==
    SelectSeq(chains[block_indices.blocks_to_chain[h]].blocks,
              LAMBDA b : b.number > BlockOf(h).number)

C26_PartialPromotion ==
    [][(/\ call'.op = "make_canonical"
        /\ OnChain(call'.hash)
        /\ Promotes(call', PathJoint(call'.hash))
        /\ Suffix(call'.hash) # <<>>)
       =>
        LET h == call'.hash
            cid == block_indices.blocks_to_chain[h]
        IN  /\ call'.ret = "Ok"
            /\ cid \in DOMAIN chains'
            /\ chains'[cid].blocks = Suffix(h)
            /\ joint_block(chains'[cid]) = [number |-> BlockOf(h).number, hash |-> h]
            /\ \A b \in Range(Suffix(h)) :
                  /\ b.hash \in DOMAIN block_indices'.blocks_to_chain
                  /\ block_indices'.blocks_to_chain[b.hash] = cid
            /\ h \in DOMAIN block_indices'.fork_to_child
            /\ Suffix(h)[1].hash \in block_indices'.fork_to_child[h]]_vars

(***************************************************************************)
(* C27.  make_canonical never panics: the expect() on chains.remove and on *)
(* the results of the splits and the unreachable!() of the sanity check    *)
(* are not executed in any reachable state.                                *)
(* Fails: both splits return (None, None), so the expect() on the split    *)
(* result panics for every hash that is a key of blocks_to_chain.          *)
(***************************************************************************)
C27_MakeCanonicalNoPanic == call.op = "make_canonical" => call.ret # "panic"

(***************************************************************************)
(* C28.  The loop of make_canonical that collects the path ends: every     *)
(* chain on the path of an indexed hash has a joint with a smaller number  *)
(* than the joint of the chain before it, and the call comes out of the    *)
(* loop with a joint that is a canonical block, to proceed to the merge.   *)
(* Fails: the joints do descend, but the call does not get as far as the   *)
(* loop: it panics on the split in front of it (C27).                      *)
(***************************************************************************)
\* The joints along the path of h strictly descend and end on canonical.
RECURSIVE Descends(_, _)
Descends(h, above) ==
    LET c == chains[block_indices.blocks_to_chain[h]]
        j == joint_block(c)
    IN  /\ j.number < above
        /\ IF OnChain(j.hash) THEN Descends(j.hash, j.number)
           ELSE /\ j.number \in CanonicalKeys
                /\ block_indices.canonical_chain[j.number] = j.hash

\* Before the call the joints along the path descend to a canonical block.
C28_PathDescends ==
    [][(call'.op = "make_canonical" /\ OnChain(call'.hash))
       => Descends(call'.hash, BlockOf(call'.hash).number)]_vars

C28_PathLoopExits ==
    [][(call'.op = "make_canonical" /\ OnChain(call'.hash))
       =>
        /\ Descends(call'.hash, BlockOf(call'.hash).number)
        /\ call'.ret \notin {"diverges", "panic"}]_vars

(***************************************************************************)
(* C29.  The dependency of chains on chains has no cycle: when the joint   *)
(* of chain c is a block of chain d, d is another chain than c and the     *)
(* joint's number is below the number of the first block of c and is the   *)
(* number of that block of d.                                              *)
(***************************************************************************)
C29_JointsDescend ==
    \A c \in ChainIds : \A d \in ChainIds :
        (HasBlocks(chains[c]) /\ joint_block(chains[c]).hash \in HashesOf(d))
        =>
            /\ d # c
            /\ joint_block(chains[c]).number < first(chains[c]).number
            /\ \E b \in BlocksOf(d) :
                  /\ b.hash = joint_block(chains[c]).hash
                  /\ b.number = joint_block(chains[c]).number

\* A chain joined into a chain that is joined to the canonical chain, after
\* an insert_block extended a chain.
C29_Witness ==
    /\ call.op = "insert_block" /\ call.ret = "Ok"
    /\ \E c \in ChainIds : \E d \in ChainIds :
          /\ joint_block(chains[c]).hash \in HashesOf(d)
          /\ JointIsCanonical(chains[d])
          /\ Len(chains[d].blocks) > MaxSeedLen

(***************************************************************************)
(* C30.  Every chain of chains is well formed: it has a block, the numbers *)
(* of consecutive blocks are consecutive, and every block but the first    *)
(* names the block before it as its parent.                                *)
(* Fails: append_block pushes a block whose header the consensus rejected; *)
(* only the parent hash was compared, by join_block_to_chain.              *)
(***************************************************************************)
WellFormed(chain) ==
    /\ HasBlocks(chain)
    /\ \A i \in 2..Len(chain.blocks) :
          /\ chain.blocks[i].number = chain.blocks[i - 1].number + 1
          /\ chain.blocks[i].parent_hash = chain.blocks[i - 1].hash

C30_ChainsWellFormed == Returned => \A cid \in ChainIds : WellFormed(chains[cid])

(***************************************************************************)
(* C31.  A make_canonical that promotes a path calls commit_canonical      *)
(* exactly once and revert_canonical at most once, the revert before the   *)
(* commit; on a path that ends in the canonical tip it calls no revert and *)
(* no insert_chain, and on a reorg the old canonical chain is inserted     *)
(* after the commit.                                                       *)
(* Fails: the call panics on the split before it calls any of them (C27).  *)
(***************************************************************************)
\* The positions of name in log.
At(log, name) == {i \in DOMAIN log : log[i] = name}

C31_RevertThenCommit ==
    [][(/\ HasCanonical(block_indices)
        /\ call'.op = "make_canonical"
        /\ OnChain(call'.hash)
        /\ Promotes(call', PathJoint(call'.hash)))
       =>
        LET log == call'.log
            fast == PathJoint(call'.hash) = canonical_tip(block_indices)
        IN  /\ Cardinality(At(log, "commit_canonical")) = 1
            /\ Cardinality(At(log, "revert_canonical")) <= 1
            /\ \A r \in At(log, "revert_canonical") :
                  \A c \in At(log, "commit_canonical") : r < c
            /\ \A i \in At(log, "insert_chain") :
                  \A c \in At(log, "commit_canonical") : c < i
            /\ fast => At(log, "revert_canonical") = {} /\ At(log, "insert_chain") = {}
            /\ ~fast => /\ At(log, "revert_canonical") # {}
                        /\ At(log, "insert_chain") # {}]_vars

(***************************************************************************)
(* C32.  Split and merge: for a chain of the tree and a height n from its  *)
(* first block's number up to below its tip's, split_at_number gives two   *)
(* chains with blocks, the first ending at height n and the second         *)
(* starting at n + 1, and append_chain of the second to the first gives    *)
(* the chain back, blocks and pending state.                               *)
(* Fails: split_at_number returns (None, None); append_chain drops the     *)
(* chain it is given.                                                      *)
(***************************************************************************)
\* The heights at which chain has blocks on both sides of the cut.
InnerHeights(chain) ==
    IF HasBlocks(chain)
    THEN {n \in BlockNumbers : first(chain).number <= n /\ n < tip(chain).number}
    ELSE {}

C32_SplitMergeRoundTrip ==
    \A cid \in ChainIds : \A n \in InnerHeights(chains[cid]) :
        LET sp == split_at_number(chains[cid], n)
        IN  /\ sp[1] # None /\ sp[2] # None
            /\ HasBlocks(sp[1]) /\ HasBlocks(sp[2])
            /\ tip(sp[1]).number = n
            /\ first(sp[2]).number = n + 1
            /\ append_chain(sp[1], sp[2]).ret = "Ok"
            /\ append_chain(sp[1], sp[2]).chain = chains[cid]

(***************************************************************************)
(* C33.  remove_chain undoes insert_chain: for a chain c none of whose     *)
(* blocks is indexed or has a fork child, BlockIndices::insert_chain of c  *)
(* under a new id followed by remove_chain(c) gives back blocks_to_chain,  *)
(* the hashes listed per number in number_to_block and the children listed *)
(* per hash in fork_to_child, and remove_chain returns no chain.           *)
(* Fails: remove_chain removes fork_to_child entries keyed by the blocks   *)
(* of c only; the first block of c stays listed under the joint of c.      *)
(***************************************************************************)
\* The chains of one or two blocks of a lane that the indices do not know.
FreshChains ==
    {c \in {ChainOf(<<b>>) : b \in Blocks}
            \cup {ChainOf(<<a, b>>) : <<a, b>> \in
                    {p \in Blocks \X Blocks : p[2].parent_hash = p[1].hash}} :
        \A b \in Range(c.blocks) :
            /\ b.hash \notin DOMAIN block_indices.blocks_to_chain
            /\ b.hash \notin DOMAIN block_indices.fork_to_child}

\* The set a map of sets lists under k.
Listed(m, k) == MapGetOr(m, k, {})

C33_RemoveUndoesInsert ==
    Returned => \A c \in FreshChains :
        LET ins == BlockIndices_insert_chain(block_indices, chain_id_generator, c)
            rem == remove_chain(ins.ix, c)
        IN  /\ rem.lose_chains = {}
            /\ rem.ix.blocks_to_chain = block_indices.blocks_to_chain
            /\ \A n \in BlockNumbers :
                  Listed(rem.ix.number_to_block, n) = Listed(block_indices.number_to_block, n)
            /\ \A h \in Hashes \cup {NoHash} :
                  Listed(rem.ix.fork_to_child, h) = Listed(block_indices.fork_to_child, h)

(***************************************************************************)
(* C34.  insert_block leaves canonical_chain and finalized_block alone,    *)
(* and one that returns Ok changes at most one chain: one chain gains the  *)
(* block at its tip, or one chain is added, or nothing changes; the blocks *)
(* of the other chains stay and no chain is removed.                       *)
(***************************************************************************)
C34_InsertFrame ==
    [][call'.op = "insert_block" =>
        /\ block_indices'.canonical_chain = block_indices.canonical_chain
        /\ finalized_block' = finalized_block
        /\ call'.ret = "Ok" =>
            /\ ChainIds \subseteq DOMAIN chains'
            /\ \/ /\ DOMAIN chains' = ChainIds
                  /\ \A cid \in ChainIds : chains'[cid].blocks = chains[cid].blocks
               \/ /\ DOMAIN chains' = ChainIds
                  /\ \E cid \in ChainIds :
                        /\ chains'[cid].blocks = Append(chains[cid].blocks, call'.block)
                        /\ \A d \in ChainIds \ {cid} :
                              chains'[d].blocks = chains[d].blocks
               \/ /\ Cardinality(DOMAIN chains' \ ChainIds) = 1
                  /\ \A cid \in ChainIds : chains'[cid].blocks = chains[cid].blocks]_vars

\* insert_block returned Ok after appending its block to the tip of a chain
\* of a tree that holds another chain.
C34_Witness ==
    /\ call.op = "insert_block" /\ call.ret = "Ok"
    /\ Cardinality(ChainIds) >= 2
    /\ \E cid \in ChainIds : HasBlocks(chains[cid]) /\ tip(chains[cid]) = call.block

(***************************************************************************)
(* C35.  The subtraction block.number - 1 of insert_block's lookup of the  *)
(* canonical parent is reached with block.number >= 1 only, a block of     *)
(* number 0 being rejected by the finalized test before it; and every      *)
(* block of every chain has a number >= 1, so joint_block() computes no    *)
(* 0 - 1.                                                                  *)
(***************************************************************************)
\* Every block a chain holds has a number of at least 1.
C35_ChainNumbersPositive ==
    \A cid \in ChainIds : \A b \in BlocksOf(cid) : b.number >= 1

\* An insert_block that gets to the canonical-parent lookup has number >= 1,
\* and one of a block of number 0 ends in PendingBlockIsFinalized.
C35_LookupAboveZero ==
    [][call'.op = "insert_block" =>
        /\ (/\ ~IsFinalized(Tree, call'.block)
            /\ ~IsInFuture(Tree, call'.block)
            /\ ~ParentInTree(Tree, call'.block)) => call'.block.number - 1 >= 0
        /\ call'.block.number = 0 => call'.ret = "PendingBlockIsFinalized"]_vars

C35_NoUnderflow == []C35_ChainNumbersPositive /\ C35_LookupAboveZero

\* The block of number 0 was offered to a tree that finalized nothing and
\* was turned away.
C35_Witness ==
    /\ call.op = "insert_block" /\ call.block.number = 0
    /\ call.ret = "PendingBlockIsFinalized"
    /\ finalized_block = 0

\* The error of the test test_is_fatal_disconnect, without its wrapper.
HandshakeUselessPeer ==
    <<"P2PStreamError", "HandshakeError", "Disconnected", "UselessPeer">>

\* C36: for every error of the three implementations of SessionError, an
\* error that merits a discovery ban is a fatal protocol error; and the
\* handshake error Disconnected(UselessPeer), bare or wrapped in a
\* PendingSessionHandshakeError, is fatal.
C36_BanImpliesFatal ==
    /\ session.merits_discovery_ban => session.is_fatal_protocol_error
    /\ session.err \in {HandshakeUselessPeer, <<"Eth">> \o HandshakeUselessPeer}
            => session.is_fatal_protocol_error

\* A pending session failed on a Hello sent outside the handshake: the error
\* merits a ban and is fatal.
C36_Witness ==
    /\ session.impl = "PendingSessionHandshakeError"
    /\ session.err = <<"Eth", "P2PStreamError", "HandshakeError", "HelloNotInHandshake">>
    /\ session.merits_discovery_ban
    /\ session.is_fatal_protocol_error

\* The backoff of a disconnect reason and of an io error, as the claim
\* tabulates them.
ReasonBackoff(reason) ==
    IF reason \in {"TooManyPeers", "AlreadyConnected", "TcpSubsystemError"}
    THEN Some("Low")
    ELSE Some("High")

KindBackoff(io) ==
    IF io \in {<<"ConnectionRefused">>, <<"ConnectionReset">>, <<"BrokenPipe">>}
    THEN Some("Low")
    ELSE Some("Medium")

Timeouts ==
    {<<"EthHandshakeError", "NoResponse">>,
     <<"P2PStreamError", "HandshakeError", "NoResponse">>,
     <<"P2PStreamError", "PingTimeout">>}

\* C37: should_backoff of an EthStreamError that carries a disconnect reason
\* is Some(Low) exactly for TooManyPeers, AlreadyConnected and
\* TcpSubsystemError and Some(High) for every other reason; of a handshake
\* NoResponse or a ping timeout it is Some(Low); of an error with an
\* underlying io error it is that io error's backoff, Low for
\* ConnectionRefused, ConnectionReset and BrokenPipe and Medium otherwise,
\* before anything else is looked at.
C37_BackoffTable ==
    session.impl = "EthStreamError" =>
        /\ as_disconnected(session.err) # Absent =>
                session.should_backoff = ReasonBackoff(as_disconnected(session.err)[1])
        /\ session.err \in Timeouts => session.should_backoff = Some("Low")
        /\ as_io(session.err) # Absent =>
                session.should_backoff = KindBackoff(as_io(session.err)[1])

\* The error of test_should_backoff: a handshake disconnect for
\* TooManyPeers backs off Low.
C37_Witness ==
    /\ session.impl = "EthStreamError"
    /\ session.err = <<"P2PStreamError", "HandshakeError", "Disconnected", "TooManyPeers">>
    /\ session.should_backoff = Some("Low")

====
